---- MODULE Spec2Model ----
(***************************************************************************)
(* diarize_speakers.py: a command-line wrapper around a pretrained speaker *)
(* diarization pipeline.  One run of the script is one behaviour: the      *)
(* module import guard, main(), diarize_audio() and its exception handler. *)
(* The pipeline library and the file system are the environment: every     *)
(* library call and the output-file write may raise, the pipeline yields   *)
(* any finite sequence of tracks, and CUDA may or may not be available.    *)
(*                                                                         *)
(* Python values: an optional value is a sequence of length <= 1 (None is  *)
(* <<>>); a command-line count argument is a sequence of characters; a     *)
(* JSON document is a sequence of tokens, white space included.            *)
(***************************************************************************)
EXTENDS Integers, Sequences, FiniteSets, TLC

VARIABLES
    pc,                 \* position of the process in the script
    argv,               \* sys.argv (argv[1] is Python's sys.argv[0])
    fs,                 \* file system: existing path -> content
    fs0,                \* the file system when the process started
    stderr,             \* lines printed to standard error
    stdout,             \* documents printed to standard output
    exitStatus,         \* None while running, else the exit status
    exc,                \* the exception raised, if any: [at, type]
    calls,              \* calls made to the pipeline library, in order
    audio_file, output_file, min_speakers, max_speakers,   \* main's locals
    pipeline,           \* diarize_audio: the loaded pipeline
    device,             \* where the pipeline runs
    diarization_params, \* diarize_audio: keyword arguments of the call
    diarization,        \* diarize_audio: the tracks the pipeline yielded
    it,                 \* number of tracks consumed by the for loop
    segments,           \* diarize_audio: the list being built
    result,             \* diarize_audio: the result dictionary
    main_result         \* main: the value diarize_audio returned

vars == <<pc, argv, fs, fs0, stderr, stdout, exitStatus, exc, calls,
          audio_file, output_file, min_speakers, max_speakers, pipeline,
          device, diarization_params, diarization, it, segments, result,
          main_result>>

None == <<>>
Some(v) == <<v>>

(***************************************************************************)
(* Bounds and input domains                                                *)
(***************************************************************************)
MaxTracks == 3

Labels == {"SPEAKER_00", "SPEAKER_01"}

\* A number is an int or a float; n is its value in seconds.
IntNum(n) == [kind |-> "int", n |-> n]
FloatNum(n) == [kind |-> "float", n |-> n]

\* Turns the pipeline may yield; the second one has an int start.
Turns == {[start |-> FloatNum(0), end |-> FloatNum(2)],
          [start |-> IntNum(1), end |-> FloatNum(3)]}

Tracks == [turn : Turns, speaker : Labels]

TrackSeqs == UNION {[1..n -> Tracks] : n \in 0..MaxTracks}

AudioArgs == {"a.wav", "gone.wav"}
OutputArgs == {"", "out.json"}
CountArgs == {<<"0">>, <<"2">>, <<"-", "1">>, <<"x">>}

Argvs ==
    {<<"diarize_speakers.py">>}
    \cup {<<"diarize_speakers.py", a>> : a \in AudioArgs}
    \cup {<<"diarize_speakers.py", a, o>> : a \in AudioArgs, o \in OutputArgs}
    \cup {<<"diarize_speakers.py", a, o, m>> :
            a \in AudioArgs, o \in OutputArgs, m \in CountArgs}
    \cup {<<"diarize_speakers.py", a, o, m, x>> :
            a \in AudioArgs, o \in OutputArgs, m \in CountArgs, x \in CountArgs}

\* "a.wav" exists, "gone.wav" does not, "out.json" may hold an older document.
InitialFileSystems ==
    {("a.wav" :> <<"RIFF">>),
     ("a.wav" :> <<"RIFF">>) @@ ("out.json" :> <<"old">>)}

(***************************************************************************)
(* Python helpers                                                          *)
(***************************************************************************)
\* sys.argv[i]
Arg(i) == argv[i + 1]

\* len(sys.argv)
Argc == Len(argv)

\* Path(p).exists()
Exists(p) == p \in DOMAIN fs

\* Truth value of an optional int: None and 0 are false.
TruthyInt(v) == v # None /\ v[1] # 0

\* Truth value of an optional string: None and "" are false.
TruthyStr(v) == v # None /\ v[1] # ""

Digits == {"0", "1", "2", "3", "4", "5", "6", "7", "8", "9"}

DigitValue ==
    ("0" :> 0) @@ ("1" :> 1) @@ ("2" :> 2) @@ ("3" :> 3) @@ ("4" :> 4) @@
    ("5" :> 5) @@ ("6" :> 6) @@ ("7" :> 7) @@ ("8" :> 8) @@ ("9" :> 9)

Signed(s) == s # <<>> /\ s[1] \in {"-", "+"}

Magnitude(s) == IF Signed(s) THEN Tail(s) ELSE s

\* Whether int(s) returns: an optional sign, then one digit or more.
IsIntLiteral(s) ==
    /\ Magnitude(s) # <<>>
    /\ \A i \in 1..Len(Magnitude(s)) : Magnitude(s)[i] \in Digits

RECURSIVE DigitsValue(_)
DigitsValue(ds) ==
    IF ds = <<>> THEN 0
    ELSE 10 * DigitsValue(SubSeq(ds, 1, Len(ds) - 1)) + DigitValue[ds[Len(ds)]]

\* int(s), for s an int literal
ParseInt(s) ==
    IF Signed(s) /\ s[1] = "-" THEN 0 - DigitsValue(Magnitude(s))
    ELSE DigitsValue(Magnitude(s))

\* float(x)
Float(x) == FloatNum(x.n)

\* sys.exit(code), and the exit of the interpreter
Exit(code) == pc' = "exited" /\ exitStatus' = Some(code)

\* An exception raised inside the try block of diarize_audio.
Raise(at, type) == pc' = "except" /\ exc' = Some([at |-> at, type |-> type])

\* A call to the pipeline library.
Call(op, arg, kwargs) == [op |-> op, arg |-> arg, kwargs |-> kwargs]

(***************************************************************************)
(* json.dump / json.dumps of the result dictionary, as token sequences     *)
(***************************************************************************)
JsonIndent == 2

RECURSIVE Spaces(_)
Spaces(n) == IF n = 0 THEN "" ELSE " " \o Spaces(n - 1)

\* A JSON string
Quote(s) == "\"" \o s \o "\""

\* repr of a number: a float keeps its fraction
Repr(x) == IF x.kind = "float" THEN ToString(x.n) \o ".0" ELSE ToString(x.n)

\* With indent=None nothing; with an indent a newline and level * indent spaces.
Newline(indent, level) ==
    IF indent = None THEN <<>>
    ELSE <<"\n">> \o [i \in 1..level |-> Spaces(indent[1])]

\* json's item separator: ", " by default, "," and a new line with an indent.
ItemSeparator(indent, level) ==
    IF indent = None THEN <<",", " ">> ELSE <<",">> \o Newline(indent, level)

\* json's key separator ": "
KeySeparator == <<":", " ">>

Member(key, value) == <<Quote(key)>> \o KeySeparator \o value

DumpsSegment(s, indent, level) ==
    <<"{">> \o Newline(indent, level + 1)
    \o Member("start", <<Repr(s.start)>>) \o ItemSeparator(indent, level + 1)
    \o Member("end", <<Repr(s.end)>>) \o ItemSeparator(indent, level + 1)
    \o Member("speaker", <<Quote(s.speaker)>>)
    \o Newline(indent, level) \o <<"}">>

RECURSIVE DumpsItems(_, _, _)
DumpsItems(segs, indent, level) ==
    IF Len(segs) = 1 THEN DumpsSegment(segs[1], indent, level)
    ELSE DumpsSegment(segs[1], indent, level) \o ItemSeparator(indent, level)
         \o DumpsItems(Tail(segs), indent, level)

DumpsList(segs, indent, level) ==
    IF segs = <<>> THEN <<"[]">>
    ELSE <<"[">> \o Newline(indent, level + 1)
         \o DumpsItems(segs, indent, level + 1)
         \o Newline(indent, level) \o <<"]">>

\* json.dumps(r, indent=indent)
Dumps(r, indent) ==
    <<"{">> \o Newline(indent, 1)
    \o Member("audio_file", <<Quote(r.audio_file)>>) \o ItemSeparator(indent, 1)
    \o Member("num_speakers", <<ToString(r.num_speakers)>>)
    \o ItemSeparator(indent, 1)
    \o Member("segments", DumpsList(r.segments, indent, 1))
    \o Newline(indent, 0) \o <<"}">>

\* Mutant: only the segments are written to the file.
FileDocument_SegmentsOnly(r) == DumpsList(r.segments, Some(JsonIndent), 0)

\* json.dump(result, f, indent=2): the document written to the output file
FileDocument(r) == Dumps(r, Some(JsonIndent))

\* json.dumps(result): the document printed to standard output
StdoutDocument(r) == Dumps(r, None)

\* What a write that raises part-way may leave in the file.
PartialWrites(doc) == {SubSeq(doc, 1, n) : n \in {0, Len(doc) \div 2}}

\* open(p, 'w') followed by writing content
WriteFile(p, content) ==
    [q \in DOMAIN fs \cup {p} |-> IF q = p THEN content ELSE fs[q]]

(***************************************************************************)
(* diarize_audio helpers                                                   *)
(***************************************************************************)
\* Mutant: tests "is not None", so a bound of 0 is forwarded.
DiarizationParams_NotNone(minS, maxS) ==
    (IF maxS # None THEN ("max_speakers" :> maxS[1]) ELSE <<>>)
    @@ (IF minS # None THEN ("min_speakers" :> minS[1]) ELSE <<>>)

\* diarization_params: a bound is passed only when it is truthy.
DiarizationParams(minS, maxS) ==
    (IF TruthyInt(maxS) THEN ("max_speakers" :> maxS[1]) ELSE <<>>)
    @@ (IF TruthyInt(minS) THEN ("min_speakers" :> minS[1]) ELSE <<>>)

\* Mutant: the end of the segment is taken from the start of the turn.
ToSegment_EndFromStart(track) ==
    [start |-> Float(track.turn.start),
     end |-> Float(track.turn.start),
     speaker |-> track.speaker]

\* The record appended for one track.
ToSegment(track) ==
    [start |-> Float(track.turn.start),
     end |-> Float(track.turn.end),
     speaker |-> track.speaker]

RECURSIVE SpeakerSet(_)
SpeakerSet(segs) ==
    IF segs = <<>> THEN {}
    ELSE SpeakerSet(SubSeq(segs, 1, Len(segs) - 1)) \cup {segs[Len(segs)].speaker}

\* Mutant: counts the segments, not the distinct labels.
NumSpeakers_CountsSegments(segs) == Len(segs)

\* len(set(seg['speaker'] for seg in segments))
NumSpeakers(segs) == Cardinality(SpeakerSet(segs))

\* The result dictionary
MakeResult(file, segs) ==
    [audio_file |-> file, num_speakers |-> NumSpeakers(segs), segments |-> segs]

Init ==
    /\ pc = "import"
    /\ argv \in Argvs
    /\ fs \in InitialFileSystems
    /\ fs0 = fs
    /\ stderr = <<>>
    /\ stdout = <<>>
    /\ exitStatus = None
    /\ exc = None
    /\ calls = <<>>
    /\ audio_file = None
    /\ output_file = None
    /\ min_speakers = None
    /\ max_speakers = None
    /\ pipeline = None
    /\ device = "cpu"
    /\ diarization_params = <<>>
    /\ diarization = None
    /\ it = 0
    /\ segments = <<>>
    /\ result = None
    /\ main_result = None

(***************************************************************************)
(* The module import guard and main()                                      *)
(***************************************************************************)
\* try: from pyannote.audio import Pipeline; import torch
\* except ImportError: print(...); sys.exit(1)
\* Any other exception of the import is uncaught: traceback, status 1.
ImportLibs ==
    /\ pc = "import"
    /\ \/ /\ pc' = "main"
          /\ UNCHANGED <<stderr, exitStatus, exc>>
       \/ /\ exc' = Some([at |-> "import", type |-> "ImportError"])
          /\ stderr' = Append(stderr, "ERROR: pyannote.audio not installed")
          /\ Exit(1)
       \/ /\ exc' = Some([at |-> "import", type |-> "RuntimeError"])
          /\ stderr' = Append(stderr, "Traceback")
          /\ Exit(1)
    /\ UNCHANGED <<argv, fs, fs0, stdout, calls, audio_file, output_file,
                   min_speakers, max_speakers, pipeline, device,
                   diarization_params, diarization, it, segments, result,
                   main_result>>

\* if len(sys.argv) < 2: print usage; sys.exit(1)
Usage ==
    /\ pc = "main"
    /\ Argc < 2
    /\ stderr' = stderr \o <<"Usage", "Example">>
    /\ Exit(1)
    /\ UNCHANGED <<argv, fs, fs0, stdout, exc, calls, audio_file, output_file,
                   min_speakers, max_speakers, pipeline, device,
                   diarization_params, diarization, it, segments, result,
                   main_result>>

\* The positional arguments; int() of a count that is no int literal raises
\* ValueError, which nothing catches: traceback, status 1.
ParseArgs ==
    /\ pc = "main"
    /\ Argc >= 2
    /\ audio_file' = Some(Arg(1))
    /\ output_file' = IF Argc > 2 THEN Some(Arg(2)) ELSE None
    /\ IF Argc > 3 /\ ~IsIntLiteral(Arg(3))
       THEN /\ exc' = Some([at |-> "min_speakers", type |-> "ValueError"])
            /\ stderr' = Append(stderr, "Traceback")
            /\ Exit(1)
            /\ UNCHANGED <<min_speakers, max_speakers>>
       ELSE /\ min_speakers' = IF Argc > 3 THEN Some(ParseInt(Arg(3))) ELSE None
            /\ IF Argc > 4 /\ ~IsIntLiteral(Arg(4))
               THEN /\ exc' = Some([at |-> "max_speakers", type |-> "ValueError"])
                    /\ stderr' = Append(stderr, "Traceback")
                    /\ Exit(1)
                    /\ UNCHANGED max_speakers
               ELSE /\ max_speakers' =
                          IF Argc > 4 THEN Some(ParseInt(Arg(4))) ELSE None
                    /\ pc' = "check"
                    /\ UNCHANGED <<stderr, exitStatus, exc>>
    /\ UNCHANGED <<argv, fs, fs0, stdout, calls, pipeline, device,
                   diarization_params, diarization, it, segments, result,
                   main_result>>

\* Mutant: the error is printed but sys.exit(1) is missing.
CheckExists_NoExit ==
    /\ pc = "check"
    /\ stderr' = IF ~Exists(audio_file[1])
                 THEN Append(stderr, "ERROR: Audio file not found")
                 ELSE stderr
    /\ pc' = "load"
    /\ UNCHANGED <<argv, fs, fs0, stdout, exitStatus, exc, calls, audio_file,
                   output_file, min_speakers, max_speakers, pipeline, device,
                   diarization_params, diarization, it, segments, result,
                   main_result>>

\* if not Path(audio_file).exists(): print(...); sys.exit(1)
\* otherwise main calls diarize_audio.
CheckExists ==
    /\ pc = "check"
    /\ IF ~Exists(audio_file[1])
       THEN /\ stderr' = Append(stderr, "ERROR: Audio file not found")
            /\ Exit(1)
       ELSE /\ pc' = "load"
            /\ UNCHANGED <<stderr, exitStatus>>
    /\ UNCHANGED <<argv, fs, fs0, stdout, exc, calls, audio_file, output_file,
                   min_speakers, max_speakers, pipeline, device,
                   diarization_params, diarization, it, segments, result,
                   main_result>>

(***************************************************************************)
(* diarize_audio()                                                         *)
(***************************************************************************)
\* Mutant: the output file is opened for writing before the model is loaded.
LoadPipeline_OpensOutputFirst ==
    /\ pc = "load"
    /\ fs' = IF TruthyStr(output_file) THEN WriteFile(output_file[1], <<>>)
             ELSE fs
    /\ calls' = Append(calls, Call("from_pretrained",
                                   "pyannote/speaker-diarization-3.1", <<>>))
    /\ \/ /\ pipeline' = Some("pyannote/speaker-diarization-3.1")
          /\ pc' = "device"
          /\ UNCHANGED exc
       \/ /\ Raise("load", "RuntimeError")
          /\ UNCHANGED pipeline
    /\ UNCHANGED <<argv, fs0, stderr, stdout, exitStatus, audio_file,
                   output_file, min_speakers, max_speakers, device,
                   diarization_params, diarization, it, segments, result,
                   main_result>>

\* pipeline = Pipeline.from_pretrained("pyannote/speaker-diarization-3.1", ...)
LoadPipeline ==
    /\ pc = "load"
    /\ calls' = Append(calls, Call("from_pretrained",
                                   "pyannote/speaker-diarization-3.1", <<>>))
    /\ \/ /\ pipeline' = Some("pyannote/speaker-diarization-3.1")
          /\ pc' = "device"
          /\ UNCHANGED exc
       \/ /\ Raise("load", "RuntimeError")
          /\ UNCHANGED pipeline
    /\ UNCHANGED <<argv, fs, fs0, stderr, stdout, exitStatus, audio_file,
                   output_file, min_speakers, max_speakers, device,
                   diarization_params, diarization, it, segments, result,
                   main_result>>

\* Mutant: pipeline = pipeline.to(...), with a to() that returns None.
MoveToDevice_Rebind ==
    /\ pc = "device"
    /\ \/ /\ pc' = "params"
          /\ UNCHANGED <<calls, device, exc, pipeline>>
       \/ /\ calls' = Append(calls, Call("to", "cuda", <<>>))
          /\ device' = "cuda"
          /\ pipeline' = None
          /\ pc' = "params"
          /\ UNCHANGED exc
       \/ /\ calls' = Append(calls, Call("to", "cuda", <<>>))
          /\ Raise("to", "RuntimeError")
          /\ UNCHANGED <<device, pipeline>>
    /\ UNCHANGED <<argv, fs, fs0, stderr, stdout, exitStatus, audio_file,
                   output_file, min_speakers, max_speakers,
                   diarization_params, diarization, it, segments, result,
                   main_result>>

\* if torch.cuda.is_available(): pipeline.to(torch.device("cuda"))
MoveToDevice ==
    /\ pc = "device"
    /\ \/ /\ pc' = "params"
          /\ UNCHANGED <<calls, device, exc>>
       \/ /\ calls' = Append(calls, Call("to", "cuda", <<>>))
          /\ device' = "cuda"
          /\ pc' = "params"
          /\ UNCHANGED exc
       \/ /\ calls' = Append(calls, Call("to", "cuda", <<>>))
          /\ Raise("to", "RuntimeError")
          /\ UNCHANGED device
    /\ UNCHANGED <<argv, fs, fs0, stderr, stdout, exitStatus, audio_file,
                   output_file, min_speakers, max_speakers, pipeline,
                   diarization_params, diarization, it, segments, result,
                   main_result>>

\* print("Processing: ..."); diarization_params = {...}
BuildParams ==
    /\ pc = "params"
    /\ stderr' = Append(stderr, "Processing")
    /\ diarization_params' = DiarizationParams(min_speakers, max_speakers)
    /\ pc' = "infer"
    /\ UNCHANGED <<argv, fs, fs0, stdout, exitStatus, exc, calls, audio_file,
                   output_file, min_speakers, max_speakers, pipeline, device,
                   diarization, it, segments, result, main_result>>

\* diarization = pipeline(audio_file, **diarization_params)
\* Calling None raises TypeError; the pipeline yields any tracks, or raises.
RunPipeline ==
    /\ pc = "infer"
    /\ IF pipeline = None
       THEN /\ Raise("infer", "TypeError")
            /\ UNCHANGED <<calls, diarization>>
       ELSE /\ calls' = Append(calls, Call("pipeline", audio_file[1],
                                           diarization_params))
            /\ \/ /\ \E ts \in TrackSeqs : diarization' = Some(ts)
                  /\ pc' = "convert"
                  /\ UNCHANGED exc
               \/ /\ Raise("infer", "RuntimeError")
                  /\ UNCHANGED diarization
    /\ UNCHANGED <<argv, fs, fs0, stderr, stdout, exitStatus, audio_file,
                   output_file, min_speakers, max_speakers, pipeline, device,
                   diarization_params, it, segments, result, main_result>>

\* One iteration of: for turn, _, speaker in diarization.itertracks(...):
\*     segments.append({...})
ConvertTrack ==
    /\ pc = "convert"
    /\ it < Len(diarization[1])
    /\ \/ /\ segments' = Append(segments, ToSegment(diarization[1][it + 1]))
          /\ it' = it + 1
          /\ UNCHANGED <<pc, exc>>
       \/ /\ Raise("convert", "RuntimeError")
          /\ UNCHANGED <<segments, it>>
    /\ UNCHANGED <<argv, fs, fs0, stderr, stdout, exitStatus, calls,
                   audio_file, output_file, min_speakers, max_speakers,
                   pipeline, device, diarization_params, diarization, result,
                   main_result>>

\* The loop is over: result = {'audio_file': ..., 'num_speakers': ..., ...}
BuildResult ==
    /\ pc = "convert"
    /\ it = Len(diarization[1])
    /\ result' = Some(MakeResult(audio_file[1], segments))
    /\ pc' = "save"
    /\ UNCHANGED <<argv, fs, fs0, stderr, stdout, exitStatus, exc, calls,
                   audio_file, output_file, min_speakers, max_speakers,
                   pipeline, device, diarization_params, diarization, it,
                   segments, main_result>>

\* if output_file: with open(output_file, 'w') as f: json.dump(...); print(...)
\* open may raise (the file is untouched); the write may raise part-way.
SaveResult ==
    /\ pc = "save"
    /\ IF ~TruthyStr(output_file)
       THEN /\ pc' = "return"
            /\ UNCHANGED <<fs, stderr, exc>>
       ELSE \/ /\ fs' = WriteFile(output_file[1], FileDocument(result[1]))
               /\ stderr' = Append(stderr, "Saved diarization")
               /\ pc' = "return"
               /\ UNCHANGED exc
            \/ /\ Raise("open", "OSError")
               /\ UNCHANGED <<fs, stderr>>
            \/ /\ \E part \in PartialWrites(FileDocument(result[1])) :
                      fs' = WriteFile(output_file[1], part)
               /\ Raise("write", "OSError")
               /\ UNCHANGED stderr
    /\ UNCHANGED <<argv, fs0, stdout, exitStatus, calls, audio_file,
                   output_file, min_speakers, max_speakers, pipeline, device,
                   diarization_params, diarization, it, segments, result,
                   main_result>>

\* return result, into main's result
ReturnResult ==
    /\ pc = "return"
    /\ main_result' = result
    /\ pc' = "summary"
    /\ UNCHANGED <<argv, fs, fs0, stderr, stdout, exitStatus, exc, calls,
                   audio_file, output_file, min_speakers, max_speakers,
                   pipeline, device, diarization_params, diarization, it,
                   segments, result>>

\* Mutant: sys.exit() without a status, so the run exits with 0.
ExceptHandler_ExitsZero ==
    /\ pc = "except"
    /\ stderr' = Append(stderr, "ERROR: Diarization failed")
    /\ Exit(0)
    /\ UNCHANGED <<argv, fs, fs0, stdout, exc, calls, audio_file, output_file,
                   min_speakers, max_speakers, pipeline, device,
                   diarization_params, diarization, it, segments, result,
                   main_result>>

\* Mutant: the handler reports the error and starts the diarization again.
ExceptHandler_Retries ==
    /\ pc = "except"
    /\ stderr' = Append(stderr, "ERROR: Diarization failed")
    /\ pc' = "load"
    /\ UNCHANGED <<argv, fs, fs0, stdout, exitStatus, exc, calls, audio_file,
                   output_file, min_speakers, max_speakers, pipeline, device,
                   diarization_params, diarization, it, segments, result,
                   main_result>>

\* except Exception as e: print("ERROR: Diarization failed: ..."); sys.exit(1)
ExceptHandler ==
    /\ pc = "except"
    /\ stderr' = Append(stderr, "ERROR: Diarization failed")
    /\ Exit(1)
    /\ UNCHANGED <<argv, fs, fs0, stdout, exc, calls, audio_file, output_file,
                   min_speakers, max_speakers, pipeline, device,
                   diarization_params, diarization, it, segments, result,
                   main_result>>

(***************************************************************************)
(* main(), after diarize_audio returned                                    *)
(***************************************************************************)
\* The three summary lines on standard error
PrintSummary ==
    /\ pc = "summary"
    /\ stderr' = stderr \o <<"Diarization complete!", "Detected speakers",
                             "Total segments">>
    /\ pc' = "emit"
    /\ UNCHANGED <<argv, fs, fs0, stdout, exitStatus, exc, calls, audio_file,
                   output_file, min_speakers, max_speakers, pipeline, device,
                   diarization_params, diarization, it, segments, result,
                   main_result>>

\* Mutant: the JSON goes to standard output only when no file was written.
EmitJson_OnlyWithoutFile ==
    /\ pc = "emit"
    /\ stdout' = IF TruthyStr(output_file) THEN stdout
                 ELSE Append(stdout, StdoutDocument(main_result[1]))
    /\ Exit(0)
    /\ UNCHANGED <<argv, fs, fs0, stderr, exc, calls, audio_file, output_file,
                   min_speakers, max_speakers, pipeline, device,
                   diarization_params, diarization, it, segments, result,
                   main_result>>

\* print(json.dumps(result)); main returns and the interpreter exits with 0.
EmitJson ==
    /\ pc = "emit"
    /\ stdout' = Append(stdout, StdoutDocument(main_result[1]))
    /\ Exit(0)
    /\ UNCHANGED <<argv, fs, fs0, stderr, exc, calls, audio_file, output_file,
                   min_speakers, max_speakers, pipeline, device,
                   diarization_params, diarization, it, segments, result,
                   main_result>>

Next ==
    \/ ImportLibs
    \/ Usage
    \/ ParseArgs
    \/ CheckExists
    \/ LoadPipeline
    \/ MoveToDevice
    \/ BuildParams
    \/ RunPipeline
    \/ ConvertTrack
    \/ BuildResult
    \/ SaveResult
    \/ ReturnResult
    \/ ExceptHandler
    \/ PrintSummary
    \/ EmitJson

Spec == Init /\ [][Next]_vars

(***************************************************************************)
(* Vocabulary of the properties                                            *)
(***************************************************************************)
Exited == pc = "exited"

ExitedWith(code) == pc = "exited" /\ exitStatus = Some(code)

\* The tracks the pipeline yielded, once the inference returned.
YieldedTracks == diarization[1]

\* Indices of the calls of one kind made to the pipeline library.
CallsOf(op) == {i \in DOMAIN calls : calls[i].op = op}

ArgMissing == Argc < 2

AudioMissing == Argc >= 2 /\ Arg(1) \notin DOMAIN fs0

CountNotInt ==
    \/ Argc > 3 /\ ~IsIntLiteral(Arg(3))
    \/ Argc > 4 /\ ~IsIntLiteral(Arg(4))

ImportFailed == exc # None /\ exc[1].at = "import"

DiarizationSteps == {"load", "to", "infer", "convert", "open", "write"}

DiarizationFailed == exc # None /\ exc[1].at \in DiarizationSteps

OutputGiven == Argc > 2

OutputNonEmpty == Argc > 2 /\ Arg(2) # ""

IsWhitespace(tok) == tok \in {" ", "\n", Spaces(JsonIndent)}

\* A JSON document without its insignificant white space.
StripWs(doc) == SelectSeq(doc, LAMBDA tok : ~IsWhitespace(tok))

SummaryLines == <<"Diarization complete!", "Detected speakers", "Total segments">>

ErrorLines ==
    {"Example", "ERROR: Audio file not found", "ERROR: Diarization failed",
     "ERROR: pyannote.audio not installed", "Traceback"}

(***************************************************************************)
(* C1.  The Result returned by diarize_audio has num_speakers equal to the *)
(* number of distinct speaker labels of its segments, which are the labels *)
(* of the yielded tracks; so 0 <= num_speakers <= number of segments, and  *)
(* num_speakers = 0 exactly when there are no segments.                    *)
(***************************************************************************)
C1_NumSpeakersCountsDistinctLabels ==
    main_result # None =>
        LET r == main_result[1] IN
        /\ r.num_speakers =
              Cardinality({r.segments[i].speaker : i \in DOMAIN r.segments})
        /\ r.num_speakers =
              Cardinality({YieldedTracks[i].speaker : i \in DOMAIN YieldedTracks})
        /\ 0 <= r.num_speakers
        /\ r.num_speakers <= Len(r.segments)
        /\ (r.num_speakers = 0 <=> r.segments = <<>>)

\* A label recurs on non-adjacent tracks: three segments, two speakers.
C1_Witness ==
    /\ main_result # None
    /\ Len(main_result[1].segments) = 3
    /\ main_result[1].segments[1].speaker = main_result[1].segments[3].speaker
    /\ main_result[1].segments[1].speaker # main_result[1].segments[2].speaker
    /\ main_result[1].num_speakers = 2

(***************************************************************************)
(* C2.  The segments of the Result are one record per yielded track, in    *)
(* emission order: segments[i] carries the start, end and speaker of the   *)
(* i-th track, as floats, also when the tracks are not sorted by start.    *)
(***************************************************************************)
C2_SegmentsFollowEmissionOrder ==
    main_result # None =>
        LET segs == main_result[1].segments IN
        /\ Len(segs) = Len(YieldedTracks)
        /\ \A i \in DOMAIN segs :
              /\ segs[i].start = FloatNum(YieldedTracks[i].turn.start.n)
              /\ segs[i].end = FloatNum(YieldedTracks[i].turn.end.n)
              /\ segs[i].speaker = YieldedTracks[i].speaker

\* The tracks were emitted out of start order and with an int start.
C2_Witness ==
    /\ main_result # None
    /\ Len(YieldedTracks) >= 2
    /\ YieldedTracks[1].turn.start.n > YieldedTracks[2].turn.start.n
    /\ YieldedTracks[1].turn.start.kind = "int"
    /\ main_result[1].segments[1].start.n > main_result[1].segments[2].start.n

(***************************************************************************)
(* C3.  When the audio file given as first argument does not exist, no     *)
(* pipeline call is made, the file system is untouched, nothing is printed *)
(* on standard output, the process can always take a step until it has     *)
(* exited, and its exit status is not 0.                                   *)
(***************************************************************************)
C3_MissingAudioStopsBeforePipeline ==
    AudioMissing =>
        /\ calls = <<>>
        /\ fs = fs0
        /\ stdout = <<>>
        /\ main_result = None
        /\ Exited => exitStatus # Some(0)
        /\ ~Exited => ENABLED Next

\* The file check itself ended the run.
C3_Witness ==
    /\ AudioMissing
    /\ Exited
    /\ exc = None
    /\ stderr = <<"ERROR: Audio file not found">>

(***************************************************************************)
(* C4.  There is at most one inference call; its keyword arguments hold    *)
(* min_speakers, with the supplied value, exactly when a minimum was       *)
(* supplied and is not zero, and max_speakers likewise; nothing else.      *)
(***************************************************************************)
C4_BoundsForwardedOnlyWhenNonZero ==
    /\ Cardinality(CallsOf("pipeline")) <= 1
    /\ \A i \in CallsOf("pipeline") :
          LET kw == calls[i].kwargs IN
          /\ calls[i].arg = Arg(1)
          /\ DOMAIN kw \subseteq {"min_speakers", "max_speakers"}
          /\ "min_speakers" \in DOMAIN kw <=> (Argc > 3 /\ ParseInt(Arg(3)) # 0)
          /\ "max_speakers" \in DOMAIN kw <=> (Argc > 4 /\ ParseInt(Arg(4)) # 0)
          /\ "min_speakers" \in DOMAIN kw => kw["min_speakers"] = ParseInt(Arg(3))
          /\ "max_speakers" \in DOMAIN kw => kw["max_speakers"] = ParseInt(Arg(4))

\* A minimum of 2 and a maximum of 0: only the minimum is forwarded.
C4_Witness ==
    /\ Argc = 5
    /\ Arg(3) = <<"2">>
    /\ Arg(4) = <<"0">>
    /\ \E i \in CallsOf("pipeline") : calls[i].kwargs = ("min_speakers" :> 2)

(***************************************************************************)
(* C5, as claimed.  A run exits with status 1 exactly when the audio       *)
(* argument is missing, the audio file does not exist, the import failed   *)
(* or a step of the diarization failed, and with status 0 otherwise.       *)
(***************************************************************************)
C5_Original ==
    Exited =>
        /\ exitStatus \in {Some(0), Some(1)}
        /\ exitStatus = Some(1) <=>
              (ArgMissing \/ AudioMissing \/ ImportFailed \/ DiarizationFailed)

(***************************************************************************)
(* C5, amended.  A run also exits with status 1 when a supplied speaker    *)
(* count is not an integer literal (int() raises ValueError, uncaught);    *)
(* status 0 is exactly the case where diarize_audio returned a Result.     *)
(***************************************************************************)
C5_ExitStatus ==
    Exited =>
        /\ exitStatus \in {Some(0), Some(1)}
        /\ exitStatus = Some(1) <=>
              (ArgMissing \/ AudioMissing \/ ImportFailed \/ DiarizationFailed
               \/ CountNotInt)
        /\ exitStatus = Some(0) <=> main_result # None

\* An existing audio file and a count that is no integer: status 1.
C5_Witness ==
    /\ ExitedWith(1)
    /\ ~ArgMissing /\ ~AudioMissing /\ ~ImportFailed /\ ~DiarizationFailed
    /\ CountNotInt
    /\ exc # None /\ exc[1].type = "ValueError"

(***************************************************************************)
(* C6, as claimed.  Whenever an output path is given and the run exits     *)
(* with status 0, the output file exists and holds the document printed on *)
(* standard output, up to indentation.                                     *)
(***************************************************************************)
C6_Original ==
    (ExitedWith(0) /\ OutputGiven) =>
        /\ Exists(Arg(2))
        /\ Len(stdout) = 1
        /\ StripWs(fs[Arg(2)]) = StripWs(stdout[1])

(***************************************************************************)
(* C6, amended.  Whenever a non-empty output path is given and the run     *)
(* exits with status 0, the output file exists and holds the document      *)
(* printed on standard output, up to indentation: both are the returned    *)
(* Result.                                                                 *)
(***************************************************************************)
C6_FileMatchesStdout ==
    (ExitedWith(0) /\ OutputNonEmpty) =>
        /\ Exists(Arg(2))
        /\ Len(stdout) = 1
        /\ StripWs(fs[Arg(2)]) = StripWs(stdout[1])
        /\ StripWs(stdout[1]) = StripWs(StdoutDocument(main_result[1]))

\* An older output file was replaced; file and stdout differ in white space.
C6_Witness ==
    /\ ExitedWith(0)
    /\ OutputNonEmpty
    /\ Arg(2) \in DOMAIN fs0
    /\ Len(main_result[1].segments) >= 2
    /\ fs[Arg(2)] # fs0[Arg(2)]
    /\ fs[Arg(2)] # stdout[1]

(***************************************************************************)
(* C7.  Standard output holds the JSON Result exactly once in a run that   *)
(* exited with status 0, with or without an output path, and nothing in a  *)
(* run that exited otherwise; when it is printed, the summary is already   *)
(* on standard error.                                                      *)
(***************************************************************************)
C7_StdoutOnceOnSuccess ==
    /\ Len(stdout) <= 1
    /\ ExitedWith(0) => stdout = <<StdoutDocument(main_result[1])>>
    /\ (Exited /\ exitStatus # Some(0)) => stdout = <<>>
    /\ stdout # <<>> =>
          /\ Len(stderr) >= Len(SummaryLines)
          /\ SubSeq(stderr, Len(stderr) - Len(SummaryLines) + 1, Len(stderr))
                = SummaryLines

\* A successful run with an output file.
C7_Witness ==
    /\ ExitedWith(0)
    /\ OutputNonEmpty
    /\ Len(stdout) = 1
    /\ "Saved diarization" \in {stderr[i] : i \in DOMAIN stderr}

(***************************************************************************)
(* C8.  What a run leaves behind is a function of the arguments, the       *)
(* initial file system, the yielded tracks and the step the environment    *)
(* made fail, and of nothing else: the Result, the output file, standard   *)
(* output and the exit status are the same whether or not the pipeline was *)
(* moved to the accelerator.  (A failure of the move itself is excepted.)  *)
(***************************************************************************)
ExpectedResult ==
    MakeResult(Arg(1), [i \in DOMAIN YieldedTracks |-> ToSegment(YieldedTracks[i])])

C8_OutcomeIndependentOfDevice ==
    (Exited /\ diarization # None /\ ~(exc # None /\ exc[1].at = "to")) =>
        IF exc = None
        THEN /\ main_result = Some(ExpectedResult)
             /\ stdout = <<StdoutDocument(ExpectedResult)>>
             /\ exitStatus = Some(0)
             /\ fs = IF OutputNonEmpty
                     THEN [q \in DOMAIN fs0 \cup {Arg(2)} |->
                             IF q = Arg(2) THEN FileDocument(ExpectedResult)
                             ELSE fs0[q]]
                     ELSE fs0
        ELSE /\ main_result = None
             /\ stdout = <<>>
             /\ exitStatus = Some(1)
             /\ exc[1].at \in {"convert", "open", "write"}
             /\ exc[1].at # "write" => fs = fs0
             /\ exc[1].at = "write" =>
                   /\ DOMAIN fs = DOMAIN fs0 \cup {Arg(2)}
                   /\ fs[Arg(2)] \in PartialWrites(FileDocument(ExpectedResult))
                   /\ \A q \in DOMAIN fs0 : q # Arg(2) => fs[q] = fs0[q]

C8_NoFailureFromTheMove ==
    (Exited /\ exc # None) => exc[1].type # "TypeError"

\* C8: the outcome of a run does not depend on the device the pipeline ran on.
C8_DeviceDoesNotAffectOutput ==
    C8_OutcomeIndependentOfDevice /\ C8_NoFailureFromTheMove

\* A successful run on the accelerator that wrote the output file.
C8_Witness ==
    /\ ExitedWith(0)
    /\ device = "cuda"
    /\ CallsOf("to") # {}
    /\ OutputNonEmpty
    /\ Len(YieldedTracks) >= 1

(***************************************************************************)
(* C9.  Every failure is fatal and announced: a run that exits with a      *)
(* non-zero status has an error message as its last line on standard       *)
(* error and returned no Result; every exception ends in status 1; the     *)
(* model is loaded and the inference is run at most once; and once a step  *)
(* has failed, the only step left is the exit: no library call, no file    *)
(* write and no output follow.                                             *)
(***************************************************************************)
Failed == pc = "except" \/ (Exited /\ exitStatus # Some(0))

C9_FailureAnnounced ==
    /\ (Exited /\ exitStatus # Some(0)) =>
          /\ stderr # <<>>
          /\ stderr[Len(stderr)] \in ErrorLines
          /\ main_result = None
    /\ (Exited /\ exc # None) => exitStatus = Some(1)
    /\ pc = "except" => exc # None /\ main_result = None
    /\ Cardinality(CallsOf("from_pretrained")) <= 1
    /\ Cardinality(CallsOf("pipeline")) <= 1

C9_NothingAfterFailure ==
    Failed =>
        /\ calls' = calls
        /\ fs' = fs
        /\ stdout' = stdout
        /\ main_result' = main_result
        /\ pc' = "exited"
        /\ exitStatus' = Some(1)

\* C9: every failure is announced, fatal, and followed by nothing but the exit.
C9_FailuresAreFatal ==
    []C9_FailureAnnounced /\ [][C9_NothingAfterFailure]_vars

\* The conversion failed after the first track; the handler ended the run.
C9_Witness ==
    /\ ExitedWith(1)
    /\ exc # None /\ exc[1].at = "convert"
    /\ it >= 1
    /\ stderr[Len(stderr)] = "ERROR: Diarization failed"

(***************************************************************************)
(* C10.  The file system changes only in the save step, after the model    *)
(* load, the inference and the conversion of every track, only for a       *)
(* non-empty output path and only at that path; a run that ends before     *)
(* that step, or has no output path or an empty one, leaves the file       *)
(* system as it found it.                                                  *)
(***************************************************************************)
C10_WriteOnlyInSave ==
    fs' # fs =>
        /\ pc = "save"
        /\ TruthyStr(output_file)
        /\ CallsOf("from_pretrained") # {}
        /\ CallsOf("pipeline") # {}
        /\ diarization # None
        /\ Len(segments) = Len(YieldedTracks)
        /\ result # None
        /\ DOMAIN fs' = DOMAIN fs \cup {output_file[1]}
        /\ \A q \in DOMAIN fs : q # output_file[1] => fs'[q] = fs[q]

C10_UntouchedOtherwise ==
    (Exited /\ (result = None \/ ~OutputNonEmpty)) => fs = fs0

====
